---------------------------- MODULE Spec2Model ----------------------------
(***************************************************************************)
(* Correlation Game (src/app.js): a round controller (generateAndPlot,     *)
(* checkGuesses) over a correlation engine (pearsonr, rankArray,           *)
(* spearmanr, kendallTau).                                                 *)
(*                                                                         *)
(* JavaScript numbers are modelled exactly.  A number is NaN or a value    *)
(* a + s*sqrt(r) with a, r rational and s in {-1,0,1}: the rationals are   *)
(* closed under + - * /, and the only irrational values the program makes  *)
(* are the square roots taken by sd().  Floating-point rounding is not     *)
(* modelled.                                                               *)
(***************************************************************************)
EXTENDS Integers, Sequences, FiniteSets, TLC

-----------------------------------------------------------------------------
(* Exact rationals <<p, q>>, q > 0, in lowest terms.                       *)

RECURSIVE GCD(_, _)
GCD(a, b) == IF b = 0 THEN a ELSE GCD(b, a % b)

IAbs(i) == IF i < 0 THEN -i ELSE i

ISign(i) == IF i < 0 THEN -1 ELSE IF i > 0 THEN 1 ELSE 0

Rat(p, q) ==
  LET g == GCD(IAbs(p), IAbs(q))
  IN  IF q < 0 THEN <<(-p) \div g, (-q) \div g>> ELSE <<p \div g, q \div g>>

RZero == <<0, 1>>

RNeg(x) == <<-x[1], x[2]>>

RAdd(x, y) ==
  LET g == GCD(x[2], y[2])
  IN  Rat(x[1] * (y[2] \div g) + y[1] * (x[2] \div g), (x[2] \div g) * y[2])

RSub(x, y) == RAdd(x, RNeg(y))

RMul(x, y) ==
  LET g1 == GCD(IAbs(x[1]), y[2])
      g2 == GCD(IAbs(y[1]), x[2])
  IN  IF x[1] = 0 \/ y[1] = 0 THEN RZero
      ELSE <<(x[1] \div g1) * (y[1] \div g2), (x[2] \div g2) * (y[2] \div g1)>>

\* 1/x, x # 0
RInv(x) == IF x[1] < 0 THEN <<-x[2], -x[1]>> ELSE <<x[2], x[1]>>

\* sign of x - y, by continued fractions: no product is formed
RECURSIVE RCmp(_, _)
RCmp(x, y) ==
  LET fx == x[1] \div x[2]
      fy == y[1] \div y[2]
      rx == x[1] - fx * x[2]
      ry == y[1] - fy * y[2]
  IN  IF fx # fy THEN (IF fx < fy THEN -1 ELSE 1)
      ELSE IF rx = 0 /\ ry = 0 THEN 0
      ELSE IF rx = 0 THEN -1
      ELSE IF ry = 0 THEN 1
      ELSE RCmp(<<y[2], ry>>, <<x[2], rx>>)

\* floor(sqrt(n)) for n >= 0, by bisection on [lo, hi)
RECURSIVE ISqrtIn(_, _, _)
ISqrtIn(n, lo, hi) ==
  IF hi - lo <= 1 THEN lo
  ELSE LET mid == (lo + hi) \div 2
       IN  IF mid <= n \div mid THEN ISqrtIn(n, mid, hi) ELSE ISqrtIn(n, lo, mid)

ISqrt(n) == IF n = 0 THEN 0 ELSE ISqrtIn(n, 1, 46341)

IsSquare(n) == n >= 0 /\ ISqrt(n) * ISqrt(n) = n

-----------------------------------------------------------------------------
(* JavaScript numbers.                                                     *)

NaN == [k |-> "nan"]

\* a + s*sqrt(r); r = 0 when s = 0, otherwise r > 0 is no square of a rational
Val(a, s, r) == [k |-> "num", a |-> a, s |-> s, r |-> r]

Q(p, q) == Val(Rat(p, q), 0, RZero)

Num(i) == Q(i, 1)

IsNaN(v) == v.k = "nan"

IsRational(v) == v.k = "num" /\ v.s = 0

\* s * sqrt(r) for a rational r >= 0, in normal form
Root(s, r) ==
  IF s = 0 \/ r[1] = 0 THEN Val(RZero, 0, RZero)
  ELSE IF IsSquare(r[1]) /\ IsSquare(r[2])
       THEN Val(Rat(s * ISqrt(r[1]), ISqrt(r[2])), 0, RZero)
       ELSE Val(RZero, s, r)

\* sign of a + s*sqrt(r)
Sign(v) ==
  LET sa == ISign(v.a[1])
  IN  IF v.s = 0 THEN sa
      ELSE IF sa = 0 \/ sa = v.s THEN v.s
      ELSE IF RCmp(RMul(v.a, v.a), v.r) > 0 THEN sa ELSE v.s

JsNeg(v) == IF IsNaN(v) THEN NaN ELSE Val(RNeg(v.a), -v.s, v.r)

\* x + y; the radicals of x and y are never different ones in this program
JsAdd(x, y) ==
  CASE IsNaN(x) \/ IsNaN(y) -> NaN
    [] x.s = 0 -> Val(RAdd(x.a, y.a), y.s, y.r)
    [] y.s = 0 -> Val(RAdd(x.a, y.a), x.s, x.r)
    [] x.r = y.r /\ x.s = -y.s -> Val(RAdd(x.a, y.a), 0, RZero)

JsSub(x, y) == JsAdd(x, JsNeg(y))

\* x * y; a product involving a radical has no rational part on either side
JsMul(x, y) ==
  CASE IsNaN(x) \/ IsNaN(y) -> NaN
    [] x.s = 0 /\ y.s = 0 -> Val(RMul(x.a, y.a), 0, RZero)
    [] x.s = 0 /\ y.a = RZero ->
         Root(ISign(x.a[1]) * y.s, RMul(RMul(x.a, x.a), y.r))
    [] y.s = 0 /\ x.a = RZero ->
         Root(ISign(y.a[1]) * x.s, RMul(RMul(y.a, y.a), x.r))
    [] x.s # 0 /\ y.s # 0 /\ x.a = RZero /\ y.a = RZero ->
         Root(x.s * y.s, RMul(x.r, y.r))

\* x / y; 0/0 is NaN.  A nonzero value is never divided by zero in this
\* program (the quotient would be an infinity), so that case is left open.
JsDiv(x, y) ==
  CASE IsNaN(x) \/ IsNaN(y) -> NaN
    [] Sign(y) = 0 /\ Sign(x) = 0 -> NaN
    [] Sign(y) # 0 /\ y.s = 0 -> JsMul(x, Val(RInv(y.a), 0, RZero))
    [] Sign(y) # 0 /\ y.s # 0 /\ y.a = RZero ->
         JsMul(x, Val(RZero, y.s, RInv(y.r)))

\* Math.sqrt of a rational; the square root of a negative number is NaN
JsSqrt(x) ==
  CASE IsNaN(x) -> NaN
    [] x.s = 0 /\ x.a[1] < 0 -> NaN
    [] x.s = 0 /\ x.a[1] >= 0 -> Root(1, x.a)

\* Math.abs
JsAbs(x) == IF IsNaN(x) THEN NaN ELSE IF Sign(x) < 0 THEN JsNeg(x) ELSE x

\* x <= y, x < y, x > y: false when either side is NaN
JsLeq(x, y) == ~IsNaN(x) /\ ~IsNaN(y) /\ Sign(JsSub(x, y)) <= 0

JsLt(x, y) == ~IsNaN(x) /\ ~IsNaN(y) /\ Sign(JsSub(x, y)) < 0

JsGt(x, y) == JsLt(y, x)

\* Math.max(a, b), Math.min(a, b): NaN if either argument is
JsMax(x, y) == IF IsNaN(x) \/ IsNaN(y) THEN NaN ELSE IF JsLt(x, y) THEN y ELSE x

JsMin(x, y) == IF IsNaN(x) \/ IsNaN(y) THEN NaN ELSE IF JsLt(y, x) THEN y ELSE x

\* a[i] with a 0-based index i; reading past the end yields undefined, which
\* every arithmetic operation turns into NaN
At(a, i) == IF i + 1 \in DOMAIN a THEN a[i + 1] ELSE NaN

-----------------------------------------------------------------------------
(* Correlation engine.  Arrays are sequences; the code's indices are        *)
(* 0-based and are kept so.                                                *)

\* The loops below add up one term per index.  The arithmetic is exact, so
\* the sum does not depend on the order of the additions; the index range is
\* halved rather than walked, which keeps the evaluation shallow.

\* a.reduce((s, v) => s + v, 0) over the indices lo .. hi-1
RECURSIVE SumRange(_, _, _)
SumRange(a, lo, hi) ==
  IF hi <= lo THEN Num(0)
  ELSE IF hi = lo + 1 THEN JsAdd(Num(0), At(a, lo))
  ELSE LET mid == (lo + hi) \div 2
       IN  JsAdd(SumRange(a, lo, mid), SumRange(a, mid, hi))

mean(a) == JsDiv(SumRange(a, 0, Len(a)), Num(Len(a)))

\* a.reduce((s, x) => s + (x - m) ** 2, 0) over the indices lo .. hi-1
RECURSIVE SumSqRange(_, _, _, _)
SumSqRange(a, m, lo, hi) ==
  IF hi <= lo THEN Num(0)
  ELSE IF hi = lo + 1
    THEN LET d == JsSub(At(a, lo), m) IN JsMul(d, d)
  ELSE LET mid == (lo + hi) \div 2
       IN  JsAdd(SumSqRange(a, m, lo, mid), SumSqRange(a, m, mid, hi))

sd(a) ==
  LET m == mean(a)
      v == JsDiv(SumSqRange(a, m, 0, Len(a)), Num(Len(a) - 1))
  IN  JsSqrt(v)

\* for (let i = 0; i < n; i++) cov += (x[i] - mx) * (y[i] - my), i in lo .. hi-1
RECURSIVE CovRange(_, _, _, _, _, _)
CovRange(x, y, mx, my, lo, hi) ==
  IF hi <= lo THEN Num(0)
  ELSE IF hi = lo + 1
    THEN JsMul(JsSub(At(x, lo), mx), JsSub(At(y, lo), my))
  ELSE LET mid == (lo + hi) \div 2
       IN  JsAdd(CovRange(x, y, mx, my, lo, mid), CovRange(x, y, mx, my, mid, hi))

pearsonr(x, y) ==
  LET n   == Len(x)
      mx  == mean(x)
      my  == mean(y)
      cov == JsDiv(CovRange(x, y, mx, my, 0, n), Num(n - 1))
  IN  JsDiv(cov, JsMul(sd(x), sd(y)))

\* arr.map((v, i) => ({ v, i }))
Pairs(arr) == [k \in 1..Len(arr) |-> [v |-> arr[k], i |-> k - 1]]

\* pairs.sort((a, b) => a.v - b.v): a goes before b when a.v - b.v < 0
SortPairs(pairs) == SortSeq(pairs, LAMBDA a, b : JsLt(JsSub(a.v, b.v), Num(0)))

\* while (j + 1 < pairs.length && pairs[j + 1].v === pairs[i].v) j++
RECURSIVE TieEnd(_, _, _)
TieEnd(pairs, i, j) ==
  IF j + 1 < Len(pairs) /\ ~IsNaN(At(pairs, i).v) /\ At(pairs, j + 1).v = At(pairs, i).v
    THEN TieEnd(pairs, i, j + 1)
    ELSE j

\* AvgRank with the ranks counted from 0
AvgRankZeroBased(i, j) == JsDiv(Num(i + j), Num(2))

\* avgRank = (i + j + 2) / 2, the rank given to sorted positions i..j
AvgRank(i, j) == JsDiv(Num(i + j + 2), Num(2))

\* the outer while loop of rankArray, from sorted position i on; written is
\* the set of assignments ranks[index] = rank made so far
RECURSIVE RankLoop(_, _, _)
RankLoop(pairs, i, written) ==
  IF i >= Len(pairs) THEN written
  ELSE LET j       == TieEnd(pairs, i, i)
           avgRank == AvgRank(i, j)
       IN  RankLoop(pairs, j + 1,
                    written \cup {[index |-> At(pairs, k).i, rank |-> avgRank] : k \in i..j})

\* new Array(arr.length): a slot the loop never writes stays empty.
\* (Concatenation with <<>> changes nothing; it has the ranks evaluated once.)
rankArray(arr) ==
  LET written == RankLoop(SortPairs(Pairs(arr)), 0, {})
  IN  [p \in 1..Len(arr) |->
         IF \E w \in written : w.index = p - 1
           THEN (CHOOSE w \in written : w.index = p - 1).rank
           ELSE NaN] \o <<>>

spearmanr(x, y) == pearsonr(rankArray(x), rankArray(y))

\* what one pair (i, j) adds to <<concordant, discordant>>
PairCount(x, y, i, j) ==
  LET dx   == JsSub(At(x, i), At(x, j))
      dy   == JsSub(At(y, i), At(y, j))
      prod == JsMul(dx, dy)
  IN  IF JsGt(prod, Num(0)) THEN <<1, 0>>
      ELSE IF JsLt(prod, Num(0)) THEN <<0, 1>>
      ELSE <<0, 0>>

\* the inner loop for one i: the counts added by j = lo .. hi-1
RECURSIVE KendallInner(_, _, _, _, _)
KendallInner(x, y, i, lo, hi) ==
  IF hi <= lo THEN <<0, 0>>
  ELSE IF hi = lo + 1 THEN PairCount(x, y, i, lo)
  ELSE LET mid == (lo + hi) \div 2
           l   == KendallInner(x, y, i, lo, mid)
           r   == KendallInner(x, y, i, mid, hi)
       IN  <<l[1] + r[1], l[2] + r[2]>>

\* the outer loop: the counts added by i = lo .. hi-1, each with j = i+1 .. n-1
RECURSIVE KendallOuter(_, _, _, _, _)
KendallOuter(x, y, n, lo, hi) ==
  IF hi <= lo THEN <<0, 0>>
  ELSE IF hi = lo + 1 THEN KendallInner(x, y, lo, lo + 1, n)
  ELSE LET mid == (lo + hi) \div 2
           l   == KendallOuter(x, y, n, lo, mid)
           r   == KendallOuter(x, y, n, mid, hi)
       IN  <<l[1] + r[1], l[2] + r[2]>>

\* <<concordant, discordant>> when the loops end (i runs over 0 .. n-2)
KendallCounts(x, y) == KendallOuter(x, y, Len(x), 0, Len(x) - 1)

\* kendallTau dividing by the pairs that are not tied
kendallTauUntied(x, y) ==
  LET cd == KendallCounts(x, y)
  IN  JsDiv(Num(cd[1] - cd[2]), Num(cd[1] + cd[2]))

kendallTau(x, y) ==
  LET n     == Len(x)
      cd    == KendallCounts(x, y)
      denom == JsDiv(Num(n * (n - 1)), Num(2))
  IN  JsDiv(Num(cd[1] - cd[2]), denom)


-----------------------------------------------------------------------------
(* Text of the form controls.  A control's value is a sequence of           *)
(* characters.  The characters drawn are digits, sign, point, blank and     *)
(* letters that belong to no number, so exponents and the literal Infinity  *)
(* do not occur.                                                           *)

Digits == <<"0", "1", "2", "3", "4", "5", "6", "7", "8", "9">>

IsDigit(c) == \E d \in DOMAIN Digits : Digits[d] = c

DigitVal(c) == (CHOOSE d \in DOMAIN Digits : Digits[d] = c) - 1

IsSpace(c) == c = " "

\* the text without its leading white space
RECURSIVE TrimStart(_)
TrimStart(str) ==
  IF str # <<>> /\ IsSpace(Head(str)) THEN TrimStart(Tail(str)) ELSE str

\* number of leading digits of str
RECURSIVE DigitRun(_)
DigitRun(str) ==
  IF str # <<>> /\ IsDigit(Head(str)) THEN 1 + DigitRun(Tail(str)) ELSE 0

\* value of the first k characters of str, all digits
RECURSIVE DigitsValue(_, _)
DigitsValue(str, k) ==
  IF k = 0 THEN 0 ELSE 10 * DigitsValue(str, k - 1) + DigitVal(str[k])

RECURSIVE Pow10(_)
Pow10(k) == IF k = 0 THEN 1 ELSE 10 * Pow10(k - 1)

HasSign(str) == str # <<>> /\ Head(str) \in {"+", "-"}

\* parseInt(str, 10): the longest prefix [ws] [sign] digits+, else NaN
parseInt(str) ==
  LET t    == TrimStart(str)
      neg  == t # <<>> /\ Head(t) = "-"
      body == IF HasSign(t) THEN Tail(t) ELSE t
      k    == DigitRun(body)
  IN  IF k = 0 THEN NaN
      ELSE Num((IF neg THEN -1 ELSE 1) * DigitsValue(body, k))

\* parseFloat(str): the longest prefix [ws] [sign] (digits [. digits] | . digits),
\* else NaN
parseFloat(str) ==
  LET t     == TrimStart(str)
      neg   == t # <<>> /\ Head(t) = "-"
      body  == IF HasSign(t) THEN Tail(t) ELSE t
      k     == DigitRun(body)
      after == SubSeq(body, k + 1, Len(body))
      frac  == IF after # <<>> /\ Head(after) = "." THEN Tail(after) ELSE <<>>
      f     == DigitRun(frac)
  IN  IF k = 0 /\ f = 0 THEN NaN
      ELSE Q((IF neg THEN -1 ELSE 1) * (DigitsValue(body, k) * Pow10(f) + DigitsValue(frac, f)),
             Pow10(f))

\* value || fallback, for text: the empty text is falsy
TextOr(value, fallback) == IF value = <<>> THEN fallback ELSE value

\* v || fallback, for numbers: 0 and NaN are falsy
NumberOr(v, fallback) == IF IsNaN(v) \/ Sign(v) = 0 THEN fallback ELSE v

\* isFinite(v): no infinity arises, so only NaN is not finite
IsFinite(v) == ~IsNaN(v)

\* largest m in lo .. hi-1 with (2m - 1)/2000 <= v, i.e. floor(1000 v + 1/2)
RECURSIVE RoundIn(_, _, _)
RoundIn(v, lo, hi) ==
  IF hi - lo <= 1 THEN lo
  ELSE LET mid == (lo + hi) \div 2
       IN  IF Sign(JsSub(v, Q(2 * mid - 1, 2000))) >= 0
             THEN RoundIn(v, mid, hi) ELSE RoundIn(v, lo, mid)

\* Math.round(v * 1000): the nearest integer to 1000 v, halves going up
RoundMilli(v) ==
  LET b == 1000 * (IAbs(v.a[1]) \div v.a[2] + v.r[1] \div v.r[2] + 2)
  IN  RoundIn(v, -b, b)

\* fmt(v): "NaN", or v rounded to thousandths and written with 3 decimals;
\* milli is the number written, in thousandths
fmt(v) ==
  IF ~IsFinite(v) THEN [text |-> "NaN", milli |-> 0]
  ELSE [text |-> "fixed3", milli |-> RoundMilli(v)]


-----------------------------------------------------------------------------
(* Bounds of the model and the inputs drawn.                               *)

\* random streams 0 .. NumStreams feed randn()
NumStreams == 1

\* longest array passed to an engine function from the console
MaxLen == 3

\* values of the array elements passed from the console
ArgValues == {0, 1, 2}

\* the k-th standard-normal draw of a round (k = 0, 1, ...) on stream seed.
\* Stream 0 is constant: the degenerate sample, whose variance is zero.
Draw(seed, k) == Num(((seed * (k * k + (k \div 3) + 1)) % 5) - 2)

\* texts of the sample-size control: missing, below the range, inside it,
\* not a number, and a number parseInt finds no digits at the start of
SizeTexts == {<<>>, <<"5">>, <<"1", "2">>, <<"a", "b", "c">>, <<".", "5">>}

\* text of the target control and the Math.random() draw behind the jitter.
\* The pairs are those for which sqrt(1 - rho^2) is rational or NaN.
RhoDraws ==
  { [target |-> <<"0", ".", "6">>, u |-> Q(1, 2)],
    [target |-> <<>>,              u |-> Q(103, 306)],
    [target |-> <<"x">>,           u |-> Q(1, 2)] }

\* texts of the tolerance control
ToleranceTexts == {<<>>, <<"0">>, <<"0", ".", "5">>}

\* texts typed into a guess field
GuessTexts == {<<>>, <<"0", ".", "5">>}

-----------------------------------------------------------------------------
(* Round controller.                                                       *)

VARIABLES
  current,        \* { xs, ys, pearson, spearman, kendall }
  chart,          \* the points on the scatter chart
  pearsonInput,   \* text of the three guess fields
  spearmanInput,
  kendallInput,
  resultDiv,      \* what the result area shows
  lastEvent,      \* the event handled last, with what its handler read from
                  \* the controls the program only reads, and what the
                  \* result area showed when the event arrived
  fn, argX, argY, ret   \* a console call of an engine function, its arrays
                        \* after the call, and its result

gameVars == <<current, chart, pearsonInput, spearmanInput, kendallInput,
              resultDiv, lastEvent>>

engineVars == <<fn, argX, argY, ret>>

vars == <<current, chart, pearsonInput, spearmanInput, kendallInput,
          resultDiv, lastEvent, fn, argX, argY, ret>>

\* number of turns of "for (let i = 0; i < n; i++)": none when n is NaN
LoopCount(n) == IF IsNaN(n) \/ Sign(n) <= 0 THEN 0 ELSE n.a[1]

\* the turns lo .. hi-1 of the loop of generateBivariateNormal: what they
\* push on xs and on ys
RECURSIVE PushRange(_, _, _, _, _)
PushRange(rho, s, seed, lo, hi) ==
  IF hi <= lo THEN [xs |-> <<>>, ys |-> <<>>]
  ELSE IF hi = lo + 1
    THEN LET x == Draw(seed, 2 * lo)
             e == Draw(seed, 2 * lo + 1)
             y == JsAdd(JsMul(rho, x), JsMul(s, e))
         IN  [xs |-> <<x>>, ys |-> <<y>>]
  ELSE LET mid == (lo + hi) \div 2
           l   == PushRange(rho, s, seed, lo, mid)
           r   == PushRange(rho, s, seed, mid, hi)
       IN  [xs |-> l.xs \o r.xs, ys |-> l.ys \o r.ys]

generateBivariateNormal(n, rho, seed) ==
  LET s == JsSqrt(JsSub(Num(1), JsMul(rho, rho)))
  IN  PushRange(rho, s, seed, 0, LoopCount(n))

\* xs.map((x, i) => ({ x, y: ys[i] }))
Points(xs, ys) == [k \in 1..Len(xs) |-> [x |-> xs[k], y |-> At(ys, k - 1)]] \o <<>>

\* let current = { xs: [], ys: [], pearson: 0, spearman: 0, kendall: 0 }
InitialCurrent ==
  [xs |-> <<>>, ys |-> <<>>, pearson |-> Num(0), spearman |-> Num(0), kendall |-> Num(0)]

\* what the n in "n=${n}" is written as
ShowInt(n) == IF IsNaN(n) THEN [text |-> "NaN", int |-> 0]
              ELSE [text |-> "int", int |-> n.a[1]]

\* generateAndPlot never assigning current.kendall
generateAndPlotNoKendall(sizeText, targetText, u, seed) ==
  LET n   == JsMax(Num(10), JsMin(Num(1000), parseInt(TextOr(sizeText, <<"5", "0">>))))
      rho == JsMax(Q(-98, 100), JsMin(Q(98, 100),
               JsAdd(JsMax(Q(-95, 100),
                           JsMin(Q(95, 100), parseFloat(TextOr(targetText, <<"0", ".", "5">>)))),
                     JsMul(JsSub(u, Q(1, 2)), Q(18, 100)))))
      gen == generateBivariateNormal(n, rho, seed)
  IN  [current   |-> [xs       |-> gen.xs,
                      ys       |-> gen.ys,
                      pearson  |-> pearsonr(gen.xs, gen.ys),
                      spearman |-> spearmanr(gen.xs, gen.ys),
                      kendall  |-> InitialCurrent.kendall],
       chart     |-> Points(gen.xs, gen.ys),
       pearsonInput  |-> <<>>,
       spearmanInput |-> <<>>,
       kendallInput  |-> <<>>,
       resultDiv |-> [kind |-> "new", n |-> ShowInt(n)]]

\* generateAndPlot writing the actual values into its message
generateAndPlotReveals(sizeText, targetText, u, seed) ==
  LET n   == JsMax(Num(10), JsMin(Num(1000), parseInt(TextOr(sizeText, <<"5", "0">>))))
      rho == JsMax(Q(-98, 100), JsMin(Q(98, 100),
               JsAdd(JsMax(Q(-95, 100),
                           JsMin(Q(95, 100), parseFloat(TextOr(targetText, <<"0", ".", "5">>)))),
                     JsMul(JsSub(u, Q(1, 2)), Q(18, 100)))))
      gen == generateBivariateNormal(n, rho, seed)
  IN  [current   |-> [xs       |-> gen.xs,
                      ys       |-> gen.ys,
                      pearson  |-> pearsonr(gen.xs, gen.ys),
                      spearman |-> spearmanr(gen.xs, gen.ys),
                      kendall  |-> kendallTau(gen.xs, gen.ys)],
       chart     |-> Points(gen.xs, gen.ys),
       pearsonInput  |-> <<>>,
       spearmanInput |-> <<>>,
       kendallInput  |-> <<>>,
       resultDiv |-> [kind |-> "new", n |-> ShowInt(n),
                      actual |-> <<fmt(pearsonr(gen.xs, gen.ys)),
                                   fmt(spearmanr(gen.xs, gen.ys)),
                                   fmt(kendallTau(gen.xs, gen.ys))>>]]

\* generateAndPlot(), reading sizeText and targetText from the controls,
\* u from Math.random() and the normal draws from stream seed: the state it
\* leaves behind
generateAndPlot(sizeText, targetText, u, seed) ==
  LET n      == JsMax(Num(10), JsMin(Num(1000), parseInt(TextOr(sizeText, <<"5", "0">>))))
      target == JsMax(Q(-95, 100),
                      JsMin(Q(95, 100), parseFloat(TextOr(targetText, <<"0", ".", "5">>))))
      jitter == JsMul(JsSub(u, Q(1, 2)), Q(18, 100))
      rho    == JsMax(Q(-98, 100), JsMin(Q(98, 100), JsAdd(target, jitter)))
      gen    == generateBivariateNormal(n, rho, seed)
  IN  [current   |-> [xs       |-> gen.xs,
                      ys       |-> gen.ys,
                      pearson  |-> pearsonr(gen.xs, gen.ys),
                      spearman |-> spearmanr(gen.xs, gen.ys),
                      kendall  |-> kendallTau(gen.xs, gen.ys)],
       chart     |-> Points(gen.xs, gen.ys),
       pearsonInput  |-> <<>>,
       spearmanInput |-> <<>>,
       kendallInput  |-> <<>>,
       resultDiv |-> [kind |-> "new", n |-> ShowInt(n)]]

\* const tol = Math.abs(parseFloat(toleranceInput.value) || 0.1)
Tolerance(tolText) == JsAbs(NumberOr(parseFloat(tolText), Q(1, 10)))

\* the absolute differences between the guesses g and the actual values of cur
Diffs(cur, g) ==
  <<JsAbs(JsSub(g[1], cur.pearson)),
    JsAbs(JsSub(g[2], cur.spearman)),
    JsAbs(JsSub(g[3], cur.kendall))>>

\* what checkGuesses writes to the result area once the guesses are judged
Verdict(cur, g, diff, pass) ==
  [kind    |-> "verdict",
   actual  |-> <<fmt(cur.pearson), fmt(cur.spearman), fmt(cur.kendall)>>,
   guess   |-> <<fmt(g[1]), fmt(g[2]), fmt(g[3])>>,
   diff    |-> <<fmt(diff[1]), fmt(diff[2]), fmt(diff[3])>>,
   pass    |-> pass,
   allPass |-> pass[1] /\ pass[2] /\ pass[3]]

\* checkGuesses comparing with < instead of <=
checkGuessesStrict(cur, pText, sText, kText, tolText) ==
  LET tol  == Tolerance(tolText)
      g    == <<parseFloat(pText), parseFloat(sText), parseFloat(kText)>>
      diff == Diffs(cur, g)
  IN  IF IsNaN(g[1]) \/ IsNaN(g[2]) \/ IsNaN(g[3])
        THEN [kind |-> "invalid"]
        ELSE Verdict(cur, g, diff,
                     <<JsLt(diff[1], tol), JsLt(diff[2], tol), JsLt(diff[3], tol)>>)

\* checkGuesses validating the first field only
checkGuessesFirstField(cur, pText, sText, kText, tolText) ==
  LET tol  == Tolerance(tolText)
      g    == <<parseFloat(pText), parseFloat(sText), parseFloat(kText)>>
      diff == Diffs(cur, g)
  IN  IF IsNaN(g[1])
        THEN [kind |-> "invalid"]
        ELSE Verdict(cur, g, diff,
                     <<JsLeq(diff[1], tol), JsLeq(diff[2], tol), JsLeq(diff[3], tol)>>)

\* checkGuesses(e), reading tolText from the tolerance control: the result
\* area it leaves behind (it writes nothing else)
checkGuesses(cur, pText, sText, kText, tolText) ==
  LET tol  == Tolerance(tolText)
      g    == <<parseFloat(pText), parseFloat(sText), parseFloat(kText)>>
      diff == Diffs(cur, g)
  IN  IF IsNaN(g[1]) \/ IsNaN(g[2]) \/ IsNaN(g[3])
        THEN [kind |-> "invalid"]
        ELSE Verdict(cur, g, diff,
                     <<JsLeq(diff[1], tol), JsLeq(diff[2], tol), JsLeq(diff[3], tol)>>)

\* the engine is not called from the console while the game is played
NoCall == fn = "none" /\ argX = <<>> /\ argY = <<>> /\ ret = NaN

\* what one run of generateAndPlot() draws: the texts of the two controls
\* it reads, Math.random() and the stream of normal draws
PlotDraws == SizeTexts \X RhoDraws \X (0..NumStreams)

\* generateAndPlot() reads nothing of the state it is run in, so what it
\* leaves behind is a function of what it draws; one entry per draw
Plots ==
  { [sizeText |-> d[1],
     after    |-> generateAndPlot(d[1], d[2].target, d[2].u, d[3])] : d \in PlotDraws }

\* The script runs generateAndPlot() once before any event can arrive
\* ("Init first plot"); the controls hold whatever the page gives them.
Init ==
  /\ \E p \in Plots :
       /\ current = p.after.current
       /\ chart = p.after.chart
       /\ pearsonInput = p.after.pearsonInput
       /\ spearmanInput = p.after.spearmanInput
       /\ kendallInput = p.after.kendallInput
       /\ resultDiv = p.after.resultDiv
       /\ lastEvent = [type |-> "load", sizeText |-> p.sizeText, before |-> "none"]
  /\ NoCall

\* click on "New Plot"
NewPlotClick ==
  /\ \E p \in Plots :
       /\ current' = p.after.current
       /\ chart' = p.after.chart
       /\ pearsonInput' = p.after.pearsonInput
       /\ spearmanInput' = p.after.spearmanInput
       /\ kendallInput' = p.after.kendallInput
       /\ resultDiv' = p.after.resultDiv
       /\ lastEvent' = [type |-> "new", sizeText |-> p.sizeText, before |-> resultDiv.kind]
  /\ UNCHANGED engineVars

\* a submit that puts the round back to its initial values once judged
GuessSubmitEndsRound ==
  /\ \E tolText \in ToleranceTexts :
       /\ resultDiv' = checkGuesses(current, pearsonInput, spearmanInput, kendallInput, tolText)
       /\ lastEvent' = [type |-> "submit", tolText |-> tolText, before |-> resultDiv.kind]
  /\ current' = IF resultDiv'.kind = "verdict" THEN InitialCurrent ELSE current
  /\ UNCHANGED <<chart, pearsonInput, spearmanInput, kendallInput>>
  /\ UNCHANGED engineVars

\* submit of the guess form
GuessSubmit ==
  /\ \E tolText \in ToleranceTexts :
       /\ resultDiv' = checkGuesses(current, pearsonInput, spearmanInput, kendallInput, tolText)
       /\ lastEvent' = [type |-> "submit", tolText |-> tolText, before |-> resultDiv.kind]
  /\ UNCHANGED <<current, chart, pearsonInput, spearmanInput, kendallInput>>
  /\ UNCHANGED engineVars

\* the player edits one guess field; no handler of the program runs
TypePearson ==
  /\ \E t \in GuessTexts : pearsonInput' = t
  /\ lastEvent' = [type |-> "edit", before |-> resultDiv.kind]
  /\ UNCHANGED <<current, chart, spearmanInput, kendallInput, resultDiv>>
  /\ UNCHANGED engineVars

TypeSpearman ==
  /\ \E t \in GuessTexts : spearmanInput' = t
  /\ lastEvent' = [type |-> "edit", before |-> resultDiv.kind]
  /\ UNCHANGED <<current, chart, pearsonInput, kendallInput, resultDiv>>
  /\ UNCHANGED engineVars

TypeKendall ==
  /\ \E t \in GuessTexts : kendallInput' = t
  /\ lastEvent' = [type |-> "edit", before |-> resultDiv.kind]
  /\ UNCHANGED <<current, chart, pearsonInput, spearmanInput, resultDiv>>
  /\ UNCHANGED engineVars

Next ==
  \/ NewPlotClick
  \/ GuessSubmit
  \/ TypePearson
  \/ TypeSpearman
  \/ TypeKendall

Spec == Init /\ [][Next]_vars


-----------------------------------------------------------------------------
(* The engine functions applied to arrays of the caller's choosing          *)
(* (window._correlationGame exposes them to the console); rankArray is      *)
(* applied as spearmanr applies it.                                        *)

\* the sequences of length n over S
RECURSIVE SeqsOfLen(_, _)
SeqsOfLen(S, n) ==
  IF n = 0 THEN {<<>>}
  ELSE {Append(q, Num(v)) : q \in SeqsOfLen(S, n - 1), v \in S}

ArgArrays == UNION {SeqsOfLen(ArgValues, n) : n \in 0..MaxLen}

\* the first plot the console is used in: the page's own controls untouched
\* but for the sample size
FirstPlot == CHOOSE q \in Plots : q.sizeText = <<"5">>

\* the game sits in a first plot while the console is used
EngineInit ==
  /\ \E q \in {FirstPlot} :
       /\ current = q.after.current
       /\ chart = q.after.chart
       /\ pearsonInput = q.after.pearsonInput
       /\ spearmanInput = q.after.spearmanInput
       /\ kendallInput = q.after.kendallInput
       /\ resultDiv = q.after.resultDiv
       /\ lastEvent = [type |-> "load", sizeText |-> q.sizeText, before |-> "none"]
  /\ fn = "none"
  /\ argX \in ArgArrays
  /\ argY \in ArgArrays
  /\ ret = NaN

ApplyPearsonr ==
  /\ fn' = "pearsonr"
  /\ ret' = pearsonr(argX, argY)
  /\ UNCHANGED <<argX, argY>>
  /\ UNCHANGED gameVars

ApplySpearmanr ==
  /\ fn' = "spearmanr"
  /\ ret' = spearmanr(argX, argY)
  /\ UNCHANGED <<argX, argY>>
  /\ UNCHANGED gameVars

ApplyKendallTau ==
  /\ fn' = "kendallTau"
  /\ ret' = kendallTau(argX, argY)
  /\ UNCHANGED <<argX, argY>>
  /\ UNCHANGED gameVars

\* rankArray(x): arr.map() copies the array and the copy is what is sorted,
\* so the caller's array is as it was
ApplyRankArray ==
  /\ fn' = "rankArray"
  /\ ret' = rankArray(argX)
  /\ UNCHANGED <<argX, argY>>
  /\ UNCHANGED gameVars

EngineNext ==
  \/ ApplyPearsonr
  \/ ApplySpearmanr
  \/ ApplyKendallTau
  \/ ApplyRankArray

SpecEngine == EngineInit /\ [][EngineNext]_vars


-----------------------------------------------------------------------------
(* Properties.                                                             *)

\* the three guesses as checkGuesses parses them, and whether all are numbers
Guesses == <<parseFloat(pearsonInput), parseFloat(spearmanInput), parseFloat(kendallInput)>>

GuessesNumeric == \A i \in 1..3 : ~IsNaN(Guesses[i])

\* the Statistic Triple of a round
Triple(cur) == <<cur.pearson, cur.spearman, cur.kendall>>

\* whether the result area shows actual values
ShowsActual(d) == "actual" \in DOMAIN d

\* |g - a| <= t over the reals: a lies between g - t and g + t
Within(g, a, t) ==
  /\ ~IsNaN(g) /\ ~IsNaN(a) /\ ~IsNaN(t)
  /\ Sign(JsSub(a, JsSub(g, t))) >= 0
  /\ Sign(JsSub(JsAdd(g, t), a)) >= 0

\* a submit event has just been handled, and the three fields it read were
\* numbers (the handler leaves the fields as they are)
JudgedSubmit == lastEvent.type = "submit" /\ GuessesNumeric

(* C1: after a submit whose three guesses are numeric, each statistic's    *)
(* verdict is "pass" exactly when |guess - actual| <= tolerance, and the   *)
(* overall result is a win exactly when all three verdicts pass.           *)
C1_VerdictRule ==
  JudgedSubmit =>
    /\ resultDiv.kind = "verdict"
    /\ \A i \in 1..3 :
         resultDiv.pass[i] = Within(Guesses[i], Triple(current)[i], Tolerance(lastEvent.tolText))
    /\ resultDiv.allPass = (\A i \in 1..3 : resultDiv.pass[i])

\* one failing statistic among three judged makes the result a loss
C1_Witness ==
  /\ JudgedSubmit
  /\ resultDiv.kind = "verdict"
  /\ resultDiv.pass = <<TRUE, TRUE, FALSE>>
  /\ ~resultDiv.allPass

(* C2: a submit with a non-numeric guess field yields the "fill all        *)
(* fields" message and nothing else (no difference, no verdict, no actual  *)
(* value), leaves the round's sample and statistics unchanged, and a later *)
(* submit in the round is judged against those same statistics.            *)
C2_Step ==
  /\ (lastEvent'.type = "submit" /\ ~GuessesNumeric) =>
       /\ resultDiv' = [kind |-> "invalid"]
       /\ current' = current
       /\ chart' = chart
  /\ (lastEvent'.type = "submit" /\ GuessesNumeric /\ resultDiv.kind = "invalid") =>
       /\ current' = current
       /\ resultDiv'.kind = "verdict"
       /\ resultDiv'.actual = <<fmt(current.pearson), fmt(current.spearman), fmt(current.kendall)>>
       /\ \A i \in 1..3 :
            resultDiv'.pass[i] =
              Within(Guesses[i], Triple(current)[i], Tolerance(lastEvent'.tolText))

C2_InvalidGuess == [][C2_Step]_vars

\* a guess judged right after a rejected one, in the same round
C2_Witness ==
  /\ lastEvent.type = "submit"
  /\ lastEvent.before = "invalid"
  /\ resultDiv.kind = "verdict"

(* C3: the tolerance of a verdict is the configured one: for every         *)
(* configured t >= 0, t = 0 included, each verdict is |guess - actual| <= t;*)
(* 0.1 is used only when no tolerance is configured.                       *)
C3_ConfiguredTolerance ==
  JudgedSubmit =>
    LET c == parseFloat(lastEvent.tolText)
        t == IF IsNaN(c) THEN Q(1, 10) ELSE c
    IN  (IsNaN(c) \/ Sign(c) >= 0) =>
          \A i \in 1..3 : resultDiv.pass[i] = Within(Guesses[i], Triple(current)[i], t)

(* C4: after every new round, whatever the sample-size text, the sample    *)
(* size n satisfies 10 <= n <= 1000 and x and y both have length n.        *)
C4_SampleSizeClamped ==
  lastEvent.type = "new" =>
    /\ resultDiv.n.text = "int"
    /\ 10 <= resultDiv.n.int /\ resultDiv.n.int <= 1000
    /\ Len(current.xs) = resultDiv.n.int
    /\ Len(current.ys) = resultDiv.n.int

\* all elements of a are equal
ZeroVariance(a) == \A i, j \in DOMAIN a : a[i] = a[j]

(* C5: pearsonr, spearmanr and kendallTau each return NaN when either      *)
(* array has zero variance or the two lengths differ.                      *)
C5_DegenerateIsNaN ==
  (/\ fn \in {"pearsonr", "spearmanr", "kendallTau"}
   /\ (ZeroVariance(argX) \/ ZeroVariance(argY) \/ Len(argX) # Len(argY)))
    => IsNaN(ret)

(* C6: the actual values are not shown before a guess of three numbers is  *)
(* submitted in the round: not by the start of the round, not by a         *)
(* rejected submit; a new round removes the values shown and clears the    *)
(* three guess fields.                                                     *)
C6_State ==
  /\ lastEvent.type \in {"load", "new"} =>
       /\ ~ShowsActual(resultDiv)
       /\ pearsonInput = <<>> /\ spearmanInput = <<>> /\ kendallInput = <<>>
  /\ (lastEvent.type = "submit" /\ ~GuessesNumeric) => ~ShowsActual(resultDiv)

C6_Step ==
  ShowsActual(resultDiv') =>
    \/ lastEvent'.type = "submit" /\ GuessesNumeric
    \/ ShowsActual(resultDiv) /\ resultDiv' = resultDiv /\ current' = current

C6_HeldBack == []C6_State /\ [][C6_Step]_vars

\* a new round started while the values of the round before were on show
C6_Witness == lastEvent.type = "new" /\ lastEvent.before = "verdict"

(* C7, as claimed: once a verdict is issued in a round, no further submit  *)
(* is judged against that round's statistics until a new round starts.     *)
C7_RoundEndsAtVerdict ==
  ~(JudgedSubmit /\ lastEvent.before = "verdict" /\ resultDiv.kind = "verdict")

(* C7, amended: a verdict does not end the round.  A further submit of     *)
(* three numbers is judged again, against the same unchanged statistics;   *)
(* only a new round replaces them.                                         *)
C7_Step ==
  (lastEvent'.type = "submit" /\ GuessesNumeric /\ resultDiv.kind = "verdict") =>
    /\ current' = current
    /\ resultDiv'.kind = "verdict"
    /\ resultDiv'.actual = resultDiv.actual
    /\ \A i \in 1..3 :
         resultDiv'.pass[i] =
           Within(Guesses[i], Triple(current')[i], Tolerance(lastEvent'.tolText))

C7_JudgedAgain == [][C7_Step]_vars

\* a win on a submit made while an earlier verdict of the round was shown
C7_Witness ==
  /\ JudgedSubmit
  /\ lastEvent.before = "verdict"
  /\ resultDiv.kind = "verdict"
  /\ resultDiv.allPass

\* the integer an element of an argument array stands for
IntOf(v) == v.a[1]

\* the unordered pairs of indices of an array of length n
IndexPairs(n) == {p \in (1..n) \X (1..n) : p[1] < p[2]}

\* (x[i] - x[j]) * (y[i] - y[j]) for the pair p = <<i, j>>
PairProduct(x, y, p) ==
  (IntOf(x[p[1]]) - IntOf(x[p[2]])) * (IntOf(y[p[1]]) - IntOf(y[p[2]]))

Concordant(x, y) == Cardinality({p \in IndexPairs(Len(x)) : PairProduct(x, y, p) > 0})

Discordant(x, y) == Cardinality({p \in IndexPairs(Len(x)) : PairProduct(x, y, p) < 0})

(* C8: for arrays of one length n, kendallTau returns (C - D) / (n(n-1)/2) *)
(* with C the pairs of positive product, D those of negative product, tied *)
(* pairs in neither and the divisor the count of all pairs (0/0 is NaN);   *)
(* for n >= 2 it is 1 when y rises strictly with x without ties, -1 when   *)
(* it falls strictly, and it lies in [-1, 1].                              *)
C8_KendallTau ==
  (fn = "kendallTau" /\ Len(argX) = Len(argY)) =>
    LET n     == Len(argX)
        c     == Concordant(argX, argY)
        d     == Discordant(argX, argY)
        total == (n * (n - 1)) \div 2
    IN  /\ ret = IF total = 0 THEN NaN ELSE Q(c - d, total)
        /\ n >= 2 => /\ Sign(JsSub(ret, Num(-1))) >= 0
                     /\ Sign(JsSub(Num(1), ret)) >= 0
        /\ (n >= 2 /\ c = total) => ret = Num(1)
        /\ (n >= 2 /\ d = total) => ret = Num(-1)

\* three observations, one pair tied, the two others concordant: 2/3
C8_Witness ==
  /\ fn = "kendallTau"
  /\ Len(argX) = 3 /\ Len(argY) = 3
  /\ \E p \in IndexPairs(3) : PairProduct(argX, argY, p) = 0
  /\ ret = Q(2, 3)

\* number of elements of a smaller than, and equal to, a[m]
Smaller(a, m) == Cardinality({k \in DOMAIN a : IntOf(a[k]) < IntOf(a[m])})

EqualTo(a, m) == Cardinality({k \in DOMAIN a : IntOf(a[k]) = IntOf(a[m])})

\* twice the sum of the first k ranks (a rank is a whole or a half number)
RECURSIVE TwiceSum(_, _)
TwiceSum(ranks, k) ==
  IF k = 0 THEN 0
  ELSE TwiceSum(ranks, k - 1) + ranks[k].a[1] * (2 \div ranks[k].a[2])

(* C9: rankArray returns, index by index, the mid-rank (2p + k + 1)/2 of   *)
(* each element, p the number of smaller elements and k the size of its    *)
(* group of equals; smaller values have smaller ranks, the ranks add up to *)
(* n(n+1)/2, and the array passed is not changed.                          *)
C9_Ranks ==
  fn = "rankArray" =>
    LET n == Len(argX)
    IN  /\ DOMAIN ret = 1..n
        /\ \A m \in 1..n :
             ret[m] = Q(2 * Smaller(argX, m) + EqualTo(argX, m) + 1, 2)
        /\ \A m1, m2 \in 1..n :
             IntOf(argX[m1]) < IntOf(argX[m2]) => JsLt(ret[m1], ret[m2])
        /\ \A m \in 1..n :
             Smaller(argX, m) = 0 => ret[m] = Q(1 + EqualTo(argX, m), 2)
        /\ TwiceSum(ret, n) = n * (n + 1)

C9_InputKept == fn' = "rankArray" => argX' = argX

C9_RankArray == []C9_Ranks /\ [][C9_InputKept]_vars

\* a two-way tie for ranks 2 and 3: both elements get 5/2
C9_Witness ==
  /\ fn = "rankArray"
  /\ Len(argX) = 3
  /\ ret = <<Num(1), Q(5, 2), Q(5, 2)>>

(* C10: at every point where an event can be handled, the stored           *)
(* statistics are those of the stored sample, which is the one plotted;    *)
(* they are never the initial placeholder values, and the actual values a  *)
(* verdict shows are those of the stored sample.                           *)
C10_TripleOfSample ==
  /\ Len(current.xs) = Len(current.ys)
  /\ current.pearson = pearsonr(current.xs, current.ys)
  /\ current.spearman = spearmanr(current.xs, current.ys)
  /\ current.kendall = kendallTau(current.xs, current.ys)
  /\ chart = Points(current.xs, current.ys)
  /\ current # InitialCurrent
  /\ (lastEvent.type = "submit" /\ ShowsActual(resultDiv)) =>
       resultDiv.actual = <<fmt(pearsonr(current.xs, current.ys)),
                            fmt(spearmanr(current.xs, current.ys)),
                            fmt(kendallTau(current.xs, current.ys))>>

\* a guess judged in a round begun by "New Plot" with twelve observations
C10_Witness ==
  /\ JudgedSubmit
  /\ resultDiv.kind = "verdict"
  /\ Len(current.xs) = 12
  /\ ~IsNaN(current.pearson)

=============================================================================
